---- MODULE Spec2Model ----
(***************************************************************************)
(* SubTitlePro (src/app.py): the subtitle data pipeline.                   *)
(*                                                                         *)
(*   sekunden_zu_srt_zeit   float seconds -> "HH:MM:SS,mmm"                *)
(*   erstelle_srt           Whisper segments -> SRT document text          *)
(*   validate_srt           shape check of an SRT text blob                *)
(*   merge_video_mit_srt    builds and runs the ffmpeg command             *)
(*   main                   one run of the Streamlit script                *)
(*                                                                         *)
(* Text is a sequence of one-character strings.  A Python float is an      *)
(* IEEE-754 binary64 value, kept exactly: a non-negative double is the     *)
(* record [ip, fn, fd] with ip its integer part and fn / 2^fd its          *)
(* fractional part; fn is a multi-limb natural number (most significant    *)
(* limb first, LimbBase per limb) because it needs up to 62 bits.          *)
(***************************************************************************)
EXTENDS Integers, Sequences, FiniteSets, TLC

(***************************************************************************)
(* Characters and text helpers                                             *)
(***************************************************************************)
NL == "\n"
BS == "\\"
SP == " "

\* str.strip() without arguments removes leading and trailing whitespace.
Whitespace == {SP, NL, "\t", "\r"}

DigitChars == <<"0", "1", "2", "3", "4", "5", "6", "7", "8", "9">>

RECURSIVE lstrip(_)
lstrip(s) ==
    IF s = <<>> THEN <<>>
    ELSE IF Head(s) \in Whitespace THEN lstrip(Tail(s)) ELSE s

RECURSIVE rstrip(_)
rstrip(s) ==
    IF s = <<>> THEN <<>>
    ELSE IF s[Len(s)] \in Whitespace THEN rstrip(SubSeq(s, 1, Len(s) - 1)) ELSE s

strip(s) == rstrip(lstrip(s))

\* sub occurs in s starting at position i
MatchAt(s, sub, i) ==
    /\ i >= 1
    /\ i + Len(sub) - 1 <= Len(s)
    /\ \A j \in 1..Len(sub) : s[i + j - 1] = sub[j]

\* Python's `sub in s`
Contains(s, sub) == \E i \in 1..(Len(s) + 1) : MatchAt(s, sub, i)

\* first position >= i where sep occurs in s, 0 when there is none
FindFrom(s, sep, i) ==
    LET hits == {j \in i..Len(s) : MatchAt(s, sep, j)}
    IN  IF hits = {} THEN 0 ELSE CHOOSE j \in hits : \A k \in hits : j <= k

\* str.split(sep): non-overlapping separators, found left to right; the
\* result always has at least one element (possibly the empty text).
RECURSIVE SplitFrom(_, _, _)
SplitFrom(s, sep, start) ==
    LET at == FindFrom(s, sep, start)
    IN  IF at = 0 THEN << SubSeq(s, start, Len(s)) >>
        ELSE << SubSeq(s, start, at - 1) >> \o SplitFrom(s, sep, at + Len(sep))

split(s, sep) == SplitFrom(s, sep, 1)

\* str.replace(old, new) for a one-character old
RECURSIVE replace(_, _, _)
replace(s, old, new) ==
    IF s = <<>> THEN <<>>
    ELSE (IF Head(s) = old THEN new ELSE << Head(s) >>) \o replace(Tail(s), old, new)

\* decimal digits of a natural number, as str(n) / format(n, "d") gives them
RECURSIVE str(_)
str(n) ==
    IF n < 10 THEN << DigitChars[n + 1] >>
    ELSE str(n \div 10) \o << DigitChars[(n % 10) + 1] >>

\* format(n, "0w"): zero-padded to at least w characters, never truncated
RECURSIVE ZeroPad(_, _)
ZeroPad(s, w) == IF Len(s) >= w THEN s ELSE ZeroPad(<< "0" >> \o s, w)

Format0(n, w) == ZeroPad(str(n), w)

(***************************************************************************)
(* Multi-limb natural numbers                                              *)
(***************************************************************************)
LimbBits == 20
LimbBase == 2 ^ LimbBits

RECURSIVE BNorm(_)
BNorm(x) == IF x # <<>> /\ Head(x) = 0 THEN BNorm(Tail(x)) ELSE x

BIsZero(x) == BNorm(x) = <<>>

\* x * m + carry for a small m
RECURSIVE BMulSmall(_, _, _)
BMulSmall(x, m, carry) ==
    IF x = <<>> THEN (IF carry = 0 THEN <<>> ELSE << carry >>)
    ELSE LET n == Len(x)
             v == x[n] * m + carry
         IN  BMulSmall(SubSeq(x, 1, n - 1), m, v \div LimbBase) \o << v % LimbBase >>

\* quotient and remainder of x by a small m
RECURSIVE BDivSmall(_, _, _)
BDivSmall(x, m, rem) ==
    IF x = <<>> THEN [q |-> <<>>, r |-> rem]
    ELSE LET cur  == rem * LimbBase + Head(x)
             rest == BDivSmall(Tail(x), m, cur % m)
         IN  [q |-> << cur \div m >> \o rest.q, r |-> rest.r]

\* 2^n
BPow2(n) == << 2 ^ (n % LimbBits) >> \o [i \in 1..(n \div LimbBits) |-> 0]

\* floor(x / 2^n)
BShiftRight(x, n) ==
    LET drop == n \div LimbBits
        kept == IF drop >= Len(x) THEN <<>> ELSE SubSeq(x, 1, Len(x) - drop)
    IN  BDivSmall(kept, 2 ^ (n % LimbBits), 0).q

\* x mod 2^n = 0
BLowBitsZero(x, n) ==
    LET drop == n \div LimbBits
        len  == Len(x)
    IN  /\ \A i \in 1..len : i > len - drop => x[i] = 0
        /\ len > drop => x[len - drop] % (2 ^ (n % LimbBits)) = 0

\* the value of a number known to fit one limb
BSmall(x) == IF BIsZero(x) THEN 0 ELSE x[Len(x)]

(***************************************************************************)
(* IEEE-754 binary64 arithmetic used by sekunden_zu_srt_zeit               *)
(***************************************************************************)
MantissaBits == 53

RECURSIVE FloorLog2(_)
FloorLog2(n) == IF n < 2 THEN 0 ELSE 1 + FloorLog2(n \div 2)

\* number of fractional binary digits a double of magnitude [2^e, 2^(e+1))
\* carries
FracDigits(e) == (MantissaBits - 1) - e

\* binary exponent of d/1000 for 1 <= d <= 999: the e < 0 with
\* 2^e <= d/1000 < 2^(e+1)
RECURSIVE MilliExponent(_)
MilliExponent(d) == IF 2 * d >= 1000 THEN -1 ELSE MilliExponent(2 * d) - 1

\* The double a segment time holds when its value is the decimal ip.ddd
\* (d thousandths): the binary64 value nearest to ip + d/1000, ties to even.
FloatOf(ip, d) ==
    IF d = 0 THEN [ip |-> ip, fn |-> <<>>, fd |-> 0]
    ELSE LET e    == IF ip >= 1 THEN FloorLog2(ip) ELSE MilliExponent(d)
             n    == FracDigits(e)
             qr   == BDivSmall(BMulSmall(BPow2(n), d, 0), 1000, 0)
             odd  == BSmall(qr.q) % 2 = 1
             up   == 2 * qr.r > 1000 \/ (2 * qr.r = 1000 /\ odd)
             fn   == IF up THEN BMulSmall(qr.q, 1, 1) ELSE qr.q
         IN  IF BNorm(fn) = BNorm(BPow2(n))
             THEN [ip |-> ip + 1, fn |-> <<>>, fd |-> 0]
             ELSE [ip |-> ip, fn |-> BNorm(fn), fd |-> n]

\* the exact value of x * 1000 for a double 0 <= x < 1 is Times1000(x) / 2^x.fd
Times1000(x) == BMulSmall(x.fn, 1000, 0)

\* floor of the exact product
FloorTimes1000(x) == BSmall(BShiftRight(Times1000(x), x.fd))

\* int(x * 1000.0) for a double 0 <= x < 1: the product is rounded to the
\* nearest double (ties to even) and int() then drops the fraction.  The
\* rounded product reaches the next whole number k+1 exactly when the exact
\* one lies within half a unit in the last place below it, that is when the
\* first `half` fractional binary digits of the exact product are all ones.
IntOfProduct(x) ==
    LET k    == FloorTimes1000(x)
        e    == IF k >= 1 THEN FloorLog2(k) ELSE -1
        half == FracDigits(e) + 1
        top  == BShiftRight(Times1000(x), x.fd - half)
        up   == /\ x.fd >= half
                /\ BLowBitsZero(BMulSmall(top, 1, 1), half)
    IN  IF up THEN k + 1 ELSE k

(***************************************************************************)
(* sekunden_zu_srt_zeit                                                    *)
(***************************************************************************)
\* int(sekunden): truncation, for a non-negative double its integer part
IntOf(x) == x.ip

\* sekunden - int(sekunden): exact in binary64
FracOf(x) == [ip |-> 0, fn |-> x.fn, fd |-> x.fd]

\* millis = int((sekunden - int(sekunden)) * 1000)
Millis(x) == IntOfProduct(FracOf(x))

\* float // and % are exact (fmod), so h, m, s depend on the integer part only
Stunden(x)  == IntOf(x) \div 3600
Minuten(x)  == (IntOf(x) % 3600) \div 60
Sekunden(x) == IntOf(x) % 60

sekunden_zu_srt_zeit(x) ==
    Format0(Stunden(x), 2) \o << ":" >> \o Format0(Minuten(x), 2) \o << ":" >>
        \o Format0(Sekunden(x), 2) \o << "," >> \o Format0(Millis(x), 3)

(***************************************************************************)
(* erstelle_srt                                                            *)
(***************************************************************************)
Arrow == << "-", "-", ">" >>

\* the loop body numbering from 0, as enumerate without start=1 would
SrtEintragAbNull(index, segment) ==
    LET text       == strip(segment.text)
        start_zeit == sekunden_zu_srt_zeit(segment.start)
        end_zeit   == sekunden_zu_srt_zeit(segment.end)
    IN  str(index - 1) \o << NL >> \o start_zeit \o << SP >> \o Arrow \o << SP >>
            \o end_zeit \o << NL >> \o text \o << NL, NL >>

\* the loop body with the index and the timing on one line
SrtEintragEinzeilig(index, segment) ==
    LET text       == strip(segment.text)
        start_zeit == sekunden_zu_srt_zeit(segment.start)
        end_zeit   == sekunden_zu_srt_zeit(segment.end)
    IN  str(index) \o << SP >> \o start_zeit \o << SP >> \o Arrow \o << SP >>
            \o end_zeit \o << NL >> \o text \o << NL, NL >>

\* one pass of the for loop: f"{index}\n{start_zeit} --> {end_zeit}\n{text}\n\n"
SrtEintrag(index, segment) ==
    LET text       == strip(segment.text)
        start_zeit == sekunden_zu_srt_zeit(segment.start)
        end_zeit   == sekunden_zu_srt_zeit(segment.end)
    IN  str(index) \o << NL >> \o start_zeit \o << SP >> \o Arrow \o << SP >>
            \o end_zeit \o << NL >> \o text \o << NL, NL >>

\* for index, segment in enumerate(segmente, start=1): srt_inhalt += ...
RECURSIVE SrtSchleife(_, _, _)
SrtSchleife(segmente, index, srt_inhalt) ==
    IF index > Len(segmente) THEN srt_inhalt
    ELSE SrtSchleife(segmente, index + 1,
                     srt_inhalt \o SrtEintrag(index, segmente[index]))

erstelle_srt(segmente) == SrtSchleife(segmente, 1, <<>>)

(***************************************************************************)
(* validate_srt                                                            *)
(***************************************************************************)
\* for entry in entries: the two early returns, True after the last entry
RECURSIVE PruefeEintraege(_, _)
PruefeEintraege(entries, i) ==
    IF i > Len(entries) THEN TRUE
    ELSE LET lines == split(entries[i], << NL >>)
         IN  IF Len(lines) < 3 THEN FALSE
             ELSE IF ~Contains(lines[2], Arrow) THEN FALSE
             ELSE PruefeEintraege(entries, i + 1)

\* the check without content.strip()
validate_srt_ohne_strip(content) == PruefeEintraege(split(content, << NL, NL >>), 1)

\* no operation inside the try block can raise for a str argument
validate_srt(content) == PruefeEintraege(split(strip(content), << NL, NL >>), 1)

(***************************************************************************)
(* merge_video_mit_srt                                                     *)
(***************************************************************************)
\* the two replacements in the other order
srt_path_safe_vertauscht(path) == replace(replace(path, ":", << BS, ":" >>), BS, << "/" >>)

\* srt_path.replace('\\', '/').replace(':', '\\:')
srt_path_safe(path) == replace(replace(path, BS, << "/" >>), ":", << BS, ":" >>)

\* f"subtitles='{srt_path_safe}'"
FilterArg(path) ==
    << "s", "u", "b", "t", "i", "t", "l", "e", "s", "=", "'" >>
        \o srt_path_safe(path) \o << "'" >>

\* the command list; the video and output paths are passed through as they are
Command(video_path, path, output_path) ==
    << << "f", "f", "m", "p", "e", "g" >>,
       << "-", "i" >>, video_path,
       << "-", "v", "f" >>, FilterArg(path),
       << "-", "c", ":", "v" >>, << "l", "i", "b", "x", "2", "6", "4" >>,
       << "-", "c", ":", "a" >>, << "c", "o", "p", "y" >>,
       << "-", "y" >>,
       output_path >>

(***************************************************************************)
(* State                                                                   *)
(***************************************************************************)
VARIABLES
    eingabe,    \* the seconds value of a call as written, << whole, thousandths >>
    sekunden,   \* the float argument of sekunden_zu_srt_zeit
    zeit,       \* its return value
    zpc,        \* "call" before, "return" after the call
    segmente,   \* the argument of erstelle_srt
    content,    \* the SRT text: erstelle_srt's result / validate_srt's argument
    valid,      \* the return value of validate_srt
    quelle,     \* where content comes from: "segmente" or "blob"
    spc,        \* "format", "validate", "done"
    mstate,     \* merge attempt: "None", "Idle", "Invoking", "Succeeded", "Failed"
    srt_path,   \* the srt_path argument of merge_video_mit_srt
    command,    \* the argument list handed to subprocess.run
    starts,     \* how often the attempt has started the external process
    result,     \* the finished process: [returncode, stderr]
    ergebnis,   \* the return value of merge_video_mit_srt: << success, text >>
    log,        \* what logging.error has been given
    pc,         \* where the run of main stands
    lauf,       \* number of the script run (Streamlit reruns main on interaction)
    audio_datei,    \* an audio file is uploaded
    transkript,     \* what model.transcribe does: [ok, segments]
    srt_datei,      \* the uploaded SRT file: [da, utf8, inhalt]
    video_datei,    \* a video file is uploaded
    button,         \* the merge button has been pressed
    tmpdir,         \* the temporary directory: [pfad, sep]
    srt_inhalt,     \* main's srt_inhalt
    srt_bearbeitet, \* what the text area returns
    ui,             \* the elements the run has shown
    geschrieben     \* the temporary files the run has written

zeitVars  == << eingabe, sekunden, zeit, zpc >>
srtVars   == << segmente, content, valid, quelle, spc >>
mergeVars == << mstate, srt_path, command, starts, result, ergebnis, log >>
mainVars  == << pc, lauf, audio_datei, transkript, srt_datei, video_datei, button,
               tmpdir, srt_inhalt, srt_bearbeitet, ui, geschrieben >>
vars      == << zeitVars, srtVars, mergeVars, mainVars >>

ZeitRuht == eingabe = << 0, 0 >> /\ sekunden = FloatOf(0, 0) /\ zeit = <<>> /\ zpc = "idle"
SrtRuht  == segmente = <<>> /\ content = <<>> /\ valid = FALSE /\ quelle = "none" /\ spc = "idle"

KeinProzess  == [returncode |-> 0, stderr |-> <<>>]
KeinErgebnis == << FALSE, <<>> >>

KeinTranskript == [ok |-> TRUE, segments |-> <<>>]
KeineSrtDatei  == [da |-> FALSE, utf8 |-> TRUE, inhalt |-> <<>>]
KeinTmpDir     == [pfad |-> <<>>, sep |-> "/"]

MainRuht ==
    /\ pc = "idle" /\ lauf = 0
    /\ audio_datei = FALSE /\ transkript = KeinTranskript /\ srt_datei = KeineSrtDatei
    /\ video_datei = FALSE /\ button = FALSE /\ tmpdir = KeinTmpDir
    /\ srt_inhalt = <<>> /\ srt_bearbeitet = <<>> /\ ui = {} /\ geschrieben = {}

MergeRuht ==
    /\ mstate = "None" /\ srt_path = <<>> /\ command = <<>> /\ starts = 0
    /\ result = KeinProzess /\ ergebnis = KeinErgebnis /\ log = <<>>

(***************************************************************************)
(* Calls of sekunden_zu_srt_zeit                                           *)
(***************************************************************************)
\* whole seconds around the minute, hour and hundred-hour boundaries
GanzeSekunden == {0, 1, 2, 59, 60, 3599, 3600, 3661, 7325, 359999, 360000}
Tausendstel   == 0..999

ZeitInit ==
    /\ \E ip \in GanzeSekunden, d \in Tausendstel :
          /\ eingabe = << ip, d >>
          /\ sekunden = FloatOf(ip, d)
    /\ zeit = <<>>
    /\ zpc = "call"
    /\ SrtRuht
    /\ MergeRuht
    /\ MainRuht

ZeitAufruf ==
    /\ zpc = "call"
    /\ zeit' = sekunden_zu_srt_zeit(sekunden)
    /\ zpc' = "return"
    /\ UNCHANGED << eingabe, sekunden, srtVars, mergeVars, mainVars >>

ZeitNext == ZeitAufruf

SpecZeit == ZeitInit /\ [][ZeitNext]_vars

(***************************************************************************)
(* Calls of erstelle_srt and validate_srt                                  *)
(***************************************************************************)
MaxSegmente == 2
MaxZeilen   == 7

SeqsUpTo(S, n) == UNION { [1..k -> S] : k \in 0..n }

\* segment times, including an end before the start and a repeated segment
ZeitPaare == { << FloatOf(0, 0), FloatOf(2, 260) >>,
               << FloatOf(2, 260), FloatOf(3661, 500) >>,
               << FloatOf(3661, 500), FloatOf(1, 1) >> }

Texte == { <<>>, << SP >>, << "a" >>, << SP, "a", NL >>, << "a", NL, "b" >>,
           << "a", NL, NL, "b" >> }

Segmente == { [start |-> z[1], end |-> z[2], text |-> t] : z \in ZeitPaare, t \in Texte }

Zeilen == { <<>>, << "1" >>, Arrow, << SP >> }

\* "\n".join(lines)
RECURSIVE Join(_)
Join(lines) ==
    IF lines = <<>> THEN <<>>
    ELSE IF Len(lines) = 1 THEN lines[1]
    ELSE lines[1] \o << NL >> \o Join(Tail(lines))

Blobs == { Join(ls) : ls \in SeqsUpTo(Zeilen, MaxZeilen) }

SrtInit ==
    /\ \/ /\ quelle = "segmente"
          /\ segmente \in SeqsUpTo(Segmente, MaxSegmente)
          /\ content = <<>>
          /\ spc = "format"
       \/ /\ quelle = "blob"
          /\ segmente = <<>>
          /\ content \in Blobs
          /\ spc = "validate"
    /\ valid = FALSE
    /\ ZeitRuht
    /\ MergeRuht
    /\ MainRuht

Erstelle ==
    /\ spc = "format"
    /\ content' = erstelle_srt(segmente)
    /\ spc' = "validate"
    /\ UNCHANGED << segmente, valid, quelle, zeitVars, mergeVars, mainVars >>

Validiere ==
    /\ spc = "validate"
    /\ valid' = validate_srt(content)
    /\ spc' = "done"
    /\ UNCHANGED << segmente, content, quelle, zeitVars, mergeVars, mainVars >>

SrtNext == Erstelle \/ Validiere

SpecSrt == SrtInit /\ [][SrtNext]_vars

(***************************************************************************)
(* Calls of merge_video_mit_srt                                            *)
(***************************************************************************)
MaxPfadLaenge == 4

PfadZeichen == { "c", ":", BS, "/" }

\* all short paths, and the two written out in full
Pfade == SeqsUpTo(PfadZeichen, MaxPfadLaenge)
            \cup { << "C", ":", "/", "t", "m", "p", "/", "s", "u", "b", ".", "s", "r", "t" >>,
                   << "C", ":", BS, "T", BS, "u", ".", "s", "r", "t" >> }

VideoPfad  == << "v", ".", "m", "p", "4" >>
OutputPfad == << "o", ".", "m", "p", "4" >>

ReturnCodes == { 0, 1, 2 }
StderrTexte == { <<>>, << "w" >>, << "e", "r", "r", NL >> }

FehlerPraefix == << "F", "F", "m", "p", "e", "g", " ", "F", "e", "h", "l", "e", "r", ":", " " >>

\* lines 74-86: build the command and start the process; subprocess.run blocks
MergeStart ==
    /\ mstate = "Idle"
    /\ command' = Command(VideoPfad, srt_path, OutputPfad)
    /\ starts' = starts + 1
    /\ mstate' = "Invoking"
    /\ UNCHANGED << srt_path, result, ergebnis, log >>
    /\ UNCHANGED << zeitVars, srtVars, mainVars >>

\* the return with the diagnostic dropped on success
MergeEnde_LeereDiagnose ==
    /\ mstate = "Invoking"
    /\ \E rc \in ReturnCodes, err \in StderrTexte :
          /\ result' = [returncode |-> rc, stderr |-> err]
          /\ log' = IF rc # 0 THEN Append(log, FehlerPraefix \o err) ELSE log
          /\ ergebnis' = << rc = 0, IF rc = 0 THEN <<>> ELSE err >>
          /\ mstate' = IF rc = 0 THEN "Succeeded" ELSE "Failed"
    /\ UNCHANGED << srt_path, command, starts >>
    /\ UNCHANGED << zeitVars, srtVars, mainVars >>

\* the return with one more try after a failure
MergeEnde_Wiederholung ==
    /\ mstate = "Invoking"
    /\ \E rc \in ReturnCodes, err \in StderrTexte :
          /\ result' = [returncode |-> rc, stderr |-> err]
          /\ log' = IF rc # 0 THEN Append(log, FehlerPraefix \o err) ELSE log
          /\ ergebnis' = << rc = 0, err >>
          /\ mstate' = IF rc = 0 THEN "Succeeded"
                       ELSE IF starts < 2 THEN "Idle" ELSE "Failed"
    /\ UNCHANGED << srt_path, command, starts >>
    /\ UNCHANGED << zeitVars, srtVars, mainVars >>

\* lines 86-91: the process has terminated; log on failure, return
MergeEnde ==
    /\ mstate = "Invoking"
    /\ \E rc \in ReturnCodes, err \in StderrTexte :
          /\ result' = [returncode |-> rc, stderr |-> err]
          /\ log' = IF rc # 0 THEN Append(log, FehlerPraefix \o err) ELSE log
          /\ ergebnis' = << rc = 0, err >>
          /\ mstate' = IF rc = 0 THEN "Succeeded" ELSE "Failed"
    /\ UNCHANGED << srt_path, command, starts >>
    /\ UNCHANGED << zeitVars, srtVars, mainVars >>

MergeInit ==
    /\ mstate = "Idle"
    /\ srt_path \in Pfade
    /\ command = <<>> /\ starts = 0
    /\ result = KeinProzess /\ ergebnis = KeinErgebnis /\ log = <<>>
    /\ ZeitRuht
    /\ SrtRuht
    /\ MainRuht

MergeNext == MergeStart \/ MergeEnde

SpecMerge == MergeInit /\ [][MergeNext]_vars

(***************************************************************************)
(* Runs of main                                                            *)
(***************************************************************************)
MaxLaeufe == 2

EinSegment  == [start |-> FloatOf(0, 0), end |-> FloatOf(2, 260), text |-> << SP, "a" >>]
ZweiSegment == [start |-> FloatOf(2, 260), end |-> FloatOf(3661, 500), text |-> << "b", NL >>]

\* model.transcribe raises, returns no segments, one segment, two segments
Transkripte == { [ok |-> FALSE, segments |-> <<>>],
                 [ok |-> TRUE, segments |-> <<>>],
                 [ok |-> TRUE, segments |-> << EinSegment >>],
                 [ok |-> TRUE, segments |-> << EinSegment, ZweiSegment >>] }

\* no upload, bytes that are not UTF-8, an empty file, "1\nHello\n", and a
\* well-formed one-entry file
SrtDateien == { KeineSrtDatei,
                [da |-> TRUE, utf8 |-> FALSE, inhalt |-> <<>>],
                [da |-> TRUE, utf8 |-> TRUE, inhalt |-> <<>>],
                [da |-> TRUE, utf8 |-> TRUE, inhalt |-> << "1", NL, "H", "i", NL >>],
                [da |-> TRUE, utf8 |-> TRUE,
                 inhalt |-> << "1", NL, "0", SP, "-", "-", ">", SP, "1", NL, "H", "i", NL >>] }

TmpDirs == { [pfad |-> << "/", "t" >>, sep |-> "/"],
             [pfad |-> << "C", ":", BS, "T" >>, sep |-> BS] }

\* what the user can leave in the text area: the text as shown, the text
\* with something appended, nothing
Bearbeitungen(text) == { text, text \o << "!" >>, <<>> }

\* os.path.join(tmpdir, name)
PathJoin(dir, name) == dir.pfad \o << dir.sep >> \o name

SrtName == << "u", "n", "t", "e", "r", "t", "i", "t", "e", "l", ".", "s", "r", "t" >>

\* lines 111-132: the widgets are drawn and deliver the uploads of this run
Eingaben ==
    /\ audio_datei' \in BOOLEAN
    /\ transkript' \in Transkripte
    /\ audio_datei' = FALSE => transkript' = KeinTranskript
    /\ srt_datei' \in SrtDateien
    /\ video_datei' \in BOOLEAN
    /\ button' \in BOOLEAN
    /\ tmpdir' \in TmpDirs
    /\ srt_inhalt' = <<>>
    /\ srt_bearbeitet' = <<>>
    /\ ui' = {}
    /\ geschrieben' = {}
    /\ pc' = "audio"

MainInit ==
    /\ pc = "audio" /\ lauf = 1
    /\ audio_datei \in BOOLEAN
    /\ transkript \in Transkripte
    /\ audio_datei = FALSE => transkript = KeinTranskript
    /\ srt_datei \in SrtDateien
    /\ video_datei \in BOOLEAN
    /\ button \in BOOLEAN
    /\ tmpdir \in TmpDirs
    /\ srt_inhalt = <<>> /\ srt_bearbeitet = <<>> /\ ui = {} /\ geschrieben = {}
    /\ MergeRuht
    /\ ZeitRuht
    /\ SrtRuht

\* lines 135-139: if audio_datei: write it, transcribe, erstelle_srt; an
\* exception of model.transcribe ends the run with Streamlit's exception box
MainAudio ==
    /\ pc = "audio"
    /\ IF audio_datei
       THEN /\ geschrieben' = geschrieben \cup { "audio" }
            /\ IF transkript.ok
               THEN /\ srt_inhalt' = erstelle_srt(transkript.segments)
                    /\ pc' = "srt"
                    /\ ui' = ui
               ELSE /\ srt_inhalt' = srt_inhalt
                    /\ pc' = "crashed"
                    /\ ui' = ui \cup { "exception" }
       ELSE /\ pc' = "srt"
            /\ UNCHANGED << geschrieben, srt_inhalt, ui >>
    /\ UNCHANGED << lauf, audio_datei, transkript, srt_datei, video_datei, button,
                    tmpdir, srt_bearbeitet >>
    /\ UNCHANGED << zeitVars, srtVars, mergeVars >>

\* the upload check with the return after st.error missing
MainSrt_ohne_return ==
    /\ pc = "srt"
    /\ IF srt_datei.da
       THEN IF ~srt_datei.utf8
            THEN /\ pc' = "crashed"
                 /\ ui' = ui \cup { "exception" }
                 /\ srt_inhalt' = srt_inhalt
            ELSE /\ srt_inhalt' = srt_datei.inhalt
                 /\ ui' = IF ~validate_srt(srt_datei.inhalt) THEN ui \cup { "error_srt" } ELSE ui
                 /\ pc' = "anzeige"
       ELSE /\ pc' = "anzeige"
            /\ UNCHANGED << srt_inhalt, ui >>
    /\ UNCHANGED << lauf, audio_datei, transkript, srt_datei, video_datei, button,
                    tmpdir, srt_bearbeitet, geschrieben >>
    /\ UNCHANGED << zeitVars, srtVars, mergeVars >>

\* lines 141-145: if srt_datei: decode, validate, st.error and return
MainSrt ==
    /\ pc = "srt"
    /\ IF srt_datei.da
       THEN IF ~srt_datei.utf8
            THEN /\ pc' = "crashed"
                 /\ ui' = ui \cup { "exception" }
                 /\ srt_inhalt' = srt_inhalt
            ELSE /\ srt_inhalt' = srt_datei.inhalt
                 /\ IF ~validate_srt(srt_datei.inhalt)
                    THEN /\ ui' = ui \cup { "error_srt" }
                         /\ pc' = "done"
                    ELSE /\ ui' = ui
                         /\ pc' = "anzeige"
       ELSE /\ pc' = "anzeige"
            /\ UNCHANGED << srt_inhalt, ui >>
    /\ UNCHANGED << lauf, audio_datei, transkript, srt_datei, video_datei, button,
                    tmpdir, srt_bearbeitet, geschrieben >>
    /\ UNCHANGED << zeitVars, srtVars, mergeVars >>

\* lines 147-150: if srt_inhalt: text area; if video_datei and st.button(...)
MainAnzeige ==
    /\ pc = "anzeige"
    /\ IF srt_inhalt # <<>>
       THEN /\ ui' = ui \cup { "text_area" }
            /\ srt_bearbeitet' \in Bearbeitungen(srt_inhalt)
            /\ pc' = IF video_datei /\ button THEN "schreiben" ELSE "done"
       ELSE /\ pc' = "done"
            /\ UNCHANGED << ui, srt_bearbeitet >>
    /\ UNCHANGED << lauf, audio_datei, transkript, srt_datei, video_datei, button,
                    tmpdir, srt_inhalt, geschrieben >>
    /\ UNCHANGED << zeitVars, srtVars, mergeVars >>

\* lines 151-163: the video and the edited subtitles are written and
\* merge_video_mit_srt is called with the subtitle file's path
MainSchreibe ==
    /\ pc = "schreiben"
    /\ geschrieben' = geschrieben \cup { "video", "srt" }
    /\ srt_path' = PathJoin(tmpdir, SrtName)
    /\ mstate' = "Idle"
    /\ pc' = "merge"
    /\ UNCHANGED << command, starts, result, ergebnis, log >>
    /\ UNCHANGED << lauf, audio_datei, transkript, srt_datei, video_datei, button,
                    tmpdir, srt_inhalt, srt_bearbeitet, ui >>
    /\ UNCHANGED << zeitVars, srtVars >>

\* lines 164-174: st.success and the download button, or st.error
MainErgebnis ==
    /\ pc = "merge"
    /\ mstate \in { "Succeeded", "Failed" }
    /\ ui' = IF ergebnis[1] THEN ui \cup { "success", "download" }
                            ELSE ui \cup { "error_merge" }
    /\ pc' = "done"
    /\ UNCHANGED << lauf, audio_datei, transkript, srt_datei, video_datei, button,
                    tmpdir, srt_inhalt, srt_bearbeitet, geschrieben >>
    /\ UNCHANGED << zeitVars, srtVars, mergeVars >>

\* the next interaction runs the script again, from the top
MainNeustart ==
    /\ pc \in { "done", "crashed" }
    /\ lauf < MaxLaeufe
    /\ lauf' = lauf + 1
    /\ Eingaben
    /\ mstate' = "None" /\ srt_path' = <<>> /\ command' = <<>> /\ starts' = 0
    /\ result' = KeinProzess /\ ergebnis' = KeinErgebnis /\ log' = log
    /\ UNCHANGED << zeitVars, srtVars >>

MainNext ==
    \/ MainAudio
    \/ MainSrt
    \/ MainAnzeige
    \/ MainSchreibe
    \/ MergeStart
    \/ MergeEnde
    \/ MainErgebnis
    \/ MainNeustart

SpecMain == MainInit /\ [][MainNext]_vars

(***************************************************************************)
(* Reading a timestamp back                                                *)
(***************************************************************************)
IsDigit(c) == \E i \in 1..10 : DigitChars[i] = c

DigitVal(c) == (CHOOSE i \in 1..10 : DigitChars[i] = c) - 1

RECURSIVE NumVal(_)
NumVal(ds) ==
    IF ds = <<>> THEN 0
    ELSE 10 * NumVal(SubSeq(ds, 1, Len(ds) - 1)) + DigitVal(ds[Len(ds)])

AllDigits(ds) == \A i \in 1..Len(ds) : IsDigit(ds[i])

\* \d{2,}:\d{2}:\d{2},\d{3}
HatZeitForm(z) ==
    LET n == Len(z)
    IN  /\ n >= 12
        /\ z[n - 3] = "," /\ z[n - 6] = ":" /\ z[n - 9] = ":"
        /\ AllDigits(SubSeq(z, 1, n - 10))
        /\ AllDigits(SubSeq(z, n - 8, n - 7))
        /\ AllDigits(SubSeq(z, n - 5, n - 4))
        /\ AllDigits(SubSeq(z, n - 2, n))

ZStunden(z) == NumVal(SubSeq(z, 1, Len(z) - 10))
ZMinuten(z) == NumVal(SubSeq(z, Len(z) - 8, Len(z) - 7))
ZSekunden(z) == NumVal(SubSeq(z, Len(z) - 5, Len(z) - 4))
ZMillis(z)  == NumVal(SubSeq(z, Len(z) - 2, Len(z)))

\* hours*3600 + minutes*60 + seconds + millis/1000, in thousandths
ZurueckInMs(z) == (ZStunden(z) * 3600 + ZMinuten(z) * 60 + ZSekunden(z)) * 1000 + ZMillis(z)

\* the seconds value of the call, in thousandths
EingabeMs == eingabe[1] * 1000 + eingabe[2]

(***************************************************************************)
(* C1                                                                      *)
(***************************************************************************)
\* C1: for every non-negative seconds value t the result has the form
\* HH:MM:SS,mmm (two or more hour digits, MM <= 59, SS <= 59, mmm <= 999) and
\* reading it back gives r with t - 0.001 < r <= t.  t is the seconds value
\* of the call (eingabe), r and t are compared in thousandths.
C1_Zeitfenster ==
    zpc = "return" =>
        /\ HatZeitForm(zeit)
        /\ ZMinuten(zeit) <= 59 /\ ZSekunden(zeit) <= 59 /\ ZMillis(zeit) <= 999
        /\ EingabeMs - 1 < ZurueckInMs(zeit)
        /\ ZurueckInMs(zeit) <= EingabeMs

(***************************************************************************)
(* C2                                                                      *)
(***************************************************************************)
\* C2: each field is what the format defines: HH = floor(t) div 3600 (wider
\* than two digits from 100 hours on), MM = (floor(t) mod 3600) div 60,
\* SS = floor(t) mod 60, mmm = the fraction of t cut to thousandths; 0 gives
\* 00:00:00,000, 3661.5 gives 01:01:01,500 and 7325.999 gives 02:02:05,999.
C2_Felder ==
    zpc = "return" =>
        /\ HatZeitForm(zeit)
        /\ ZStunden(zeit) = eingabe[1] \div 3600
        /\ Len(zeit) = (IF eingabe[1] \div 3600 >= 100 THEN 13 ELSE 12)
        /\ ZMinuten(zeit) = (eingabe[1] % 3600) \div 60
        /\ ZSekunden(zeit) = eingabe[1] % 60
        /\ ZMillis(zeit) = eingabe[2]
        /\ eingabe = << 0, 0 >> =>
              zeit = << "0", "0", ":", "0", "0", ":", "0", "0", ",", "0", "0", "0" >>
        /\ eingabe = << 3661, 500 >> =>
              zeit = << "0", "1", ":", "0", "1", ":", "0", "1", ",", "5", "0", "0" >>
        /\ eingabe = << 7325, 999 >> =>
              zeit = << "0", "2", ":", "0", "2", ":", "0", "5", ",", "9", "9", "9" >>

(***************************************************************************)
(* C3                                                                      *)
(***************************************************************************)
\* position after the parts, read one after another from pos; 0 if one of
\* them is not there
RECURSIVE LiestTeile(_, _, _)
LiestTeile(s, parts, pos) ==
    IF parts = <<>> THEN pos
    ELSE IF MatchAt(s, Head(parts), pos)
         THEN LiestTeile(s, Tail(parts), pos + Len(Head(parts)))
         ELSE 0

\* from pos on, s consists of the entries i, i+1, ..., n of segs and nothing else
RECURSIVE LiestEintraege(_, _, _, _)
LiestEintraege(s, segs, i, pos) ==
    IF i > Len(segs) THEN pos = Len(s) + 1
    ELSE LET next == LiestTeile(s,
                        << str(i), << NL >>,
                           sekunden_zu_srt_zeit(segs[i].start),
                           << SP, "-", "-", ">", SP >>,
                           sekunden_zu_srt_zeit(segs[i].end), << NL >>,
                           strip(segs[i].text), << NL, NL >> >>, pos)
         IN  next # 0 /\ LiestEintraege(s, segs, i + 1, next)

\* C3: for n segments erstelle_srt emits exactly n entries, numbered 1..n in
\* document order; entry i is the i-th segment's encoded start and end joined
\* by " --> ", then its trimmed text; nothing is sorted, dropped or merged.
C3_EintraegeInReihenfolge ==
    (quelle = "segmente" /\ spc # "format") => LiestEintraege(content, segmente, 1, 1)

\* two segments handed over in descending start order have been formatted
C3_Witness ==
    /\ quelle = "segmente" /\ spc = "validate"
    /\ Len(segmente) = 2
    /\ segmente[1].start = FloatOf(3661, 500)
    /\ segmente[2].start = FloatOf(0, 0)
    /\ Len(content) > 0

(***************************************************************************)
(* C4                                                                      *)
(***************************************************************************)
\* a block has a first and a second line break, and "-->" between them
BlockHatForm(b) ==
    LET p1 == FindFrom(b, << NL >>, 1)
        p2 == IF p1 = 0 THEN 0 ELSE FindFrom(b, << NL >>, p1 + 1)
    IN  /\ p1 > 0
        /\ p2 > 0
        /\ Contains(SubSeq(b, p1 + 1, p2 - 1), Arrow)

Bloecke(blob) == split(strip(blob), << NL, NL >>)

\* C4: validate_srt returns true exactly when every block of the trimmed
\* blob, split at blank lines, has at least 3 lines and "-->" in its second
\* line; the empty blob gives false; index and timestamp values play no part.
C4_NurForm ==
    spc = "done" =>
        /\ valid <=> \A i \in 1..Len(Bloecke(content)) : BlockHatForm(Bloecke(content)[i])
        /\ content = <<>> => ~valid

\* a two-block blob without any timestamp digits has been accepted
C4_Witness ==
    /\ spc = "done" /\ quelle = "blob"
    /\ valid
    /\ Len(Bloecke(content)) = 2
    /\ \A i \in 1..Len(content) : content[i] # ":"

(***************************************************************************)
(* C10                                                                     *)
(***************************************************************************)
TextBrauchbar(seg) ==
    /\ strip(seg.text) # <<>>
    /\ ~Contains(strip(seg.text), << NL, NL >>)

\* C10: for a non-empty segment sequence whose trimmed texts are non-empty
\* and free of blank lines, validate_srt accepts what erstelle_srt produced.
C10_FormatiertesIstGueltig ==
    ( /\ quelle = "segmente" /\ spc = "done"
      /\ Len(segmente) >= 1
      /\ \A i \in 1..Len(segmente) : TextBrauchbar(segmente[i]) )
    => valid

\* two formatted segments, one with a two-line text, have been validated
C10_Witness ==
    /\ quelle = "segmente" /\ spc = "done"
    /\ Len(segmente) = 2
    /\ \A i \in 1..2 : TextBrauchbar(segmente[i])
    /\ segmente[2].text = << "a", NL, "b" >>
    /\ valid

(***************************************************************************)
(* C5                                                                      *)
(***************************************************************************)
\* C5 (as claimed): on exit code 0 merge_video_mit_srt reports success with
\* an empty diagnostic; on a non-zero exit code it reports failure with the
\* captured standard-error text unchanged.
C5_LeereDiagnose ==
    /\ mstate = "Succeeded" => ergebnis = << TRUE, <<>> >>
    /\ mstate = "Failed" => ergebnis = << FALSE, result.stderr >>

\* C5: exit code 0 is reported as success and any other exit code as
\* failure; in both cases the diagnostic is the captured standard-error text,
\* unchanged.
C5_DiagnoseIstStderr ==
    /\ mstate = "Succeeded" => (result.returncode = 0 /\ ergebnis = << TRUE, result.stderr >>)
    /\ mstate = "Failed" => (result.returncode # 0 /\ ergebnis = << FALSE, result.stderr >>)

\* the process has exited with 0 after writing to standard error
C5_Witness ==
    /\ mstate = "Succeeded"
    /\ result.returncode = 0
    /\ result.stderr # <<>>

(***************************************************************************)
(* C6                                                                      *)
(***************************************************************************)
\* the text between "subtitles='" and the closing quote of the -vf argument
Eingebettet(arg) == SubSeq(arg, 12, Len(arg) - 1)

OhneBackslash(s) == SelectSeq(s, LAMBDA c : c # BS)

MitSchraegstrich(s) == [i \in 1..Len(s) |-> IF s[i] = BS THEN "/" ELSE s[i]]

\* C6: the filter argument embeds the subtitle path with every backslash
\* turned into a forward slash and every colon preceded by exactly one
\* backslash: a backslash occurs only directly before a colon, no colon is
\* unescaped; C:/tmp/sub.srt appears as C\:/tmp/sub.srt.
C6_PfadMaskiert ==
    mstate # "Idle" =>
        LET arg == command[5]
            esc == Eingebettet(arg)
        IN  /\ command[4] = << "-", "v", "f" >>
            /\ MatchAt(arg, << "s", "u", "b", "t", "i", "t", "l", "e", "s", "=", "'" >>, 1)
            /\ arg[Len(arg)] = "'"
            /\ \A i \in 1..Len(esc) :
                  /\ esc[i] = BS => (i < Len(esc) /\ esc[i + 1] = ":")
                  /\ esc[i] = ":" => (i > 1 /\ esc[i - 1] = BS)
            /\ OhneBackslash(esc) = MitSchraegstrich(srt_path)
            /\ srt_path = << "C", ":", "/", "t", "m", "p", "/", "s", "u", "b", ".", "s", "r", "t" >>
                  => esc = << "C", BS, ":", "/", "t", "m", "p", "/", "s", "u", "b", ".", "s", "r", "t" >>

\* a path with a backslash followed by a colon has been put into the command
C6_Witness ==
    /\ mstate = "Invoking"
    /\ srt_path = << "c", BS, ":", "c" >>
    /\ Len(command) = 11

(***************************************************************************)
(* C7                                                                      *)
(***************************************************************************)
\* validate_srt has turned down the uploaded file in this run
Abgelehnt ==
    /\ pc \in { "anzeige", "schreiben", "merge", "done" }
    /\ srt_datei.da /\ srt_datei.utf8
    /\ ~validate_srt(srt_datei.inhalt)

\* C7: once an uploaded subtitle file has failed validate_srt, the run is
\* over: the user sees the error, neither the video nor the subtitle file is
\* written, and the external process is not started.
C7_AbbruchVorMerge ==
    Abgelehnt =>
        /\ "error_srt" \in ui
        /\ pc = "done"
        /\ geschrieben \cap { "video", "srt" } = {}
        /\ mstate = "None"
        /\ starts = 0

\* a run with a transcript, a video and the button pressed has been ended by
\* the rejection of the uploaded file
C7_Witness ==
    /\ Abgelehnt
    /\ audio_datei /\ transkript.ok /\ Len(transkript.segments) = 2
    /\ video_datei /\ button
    /\ pc = "done"

(***************************************************************************)
(* C8                                                                      *)
(***************************************************************************)
Fehleranzeigen == { "exception", "error_srt", "error_merge" }

\* C8: when an audio file is supplied and the transcription raises or
\* returns no segments, the run ends with an error on screen instead of
\* ending silently with no subtitles shown (subtitles from an uploaded file
\* count as shown), and no other subtitle text is put in the transcript's
\* place.
C8_TranskriptionsfehlerSichtbar ==
    ( /\ pc \in { "done", "crashed" }
      /\ audio_datei
      /\ ~transkript.ok \/ transkript.segments = <<>> )
    => /\ ui \cap Fehleranzeigen # {} \/ "text_area" \in ui
       /\ ~srt_datei.da => srt_inhalt = <<>>

(***************************************************************************)
(* C9                                                                      *)
(***************************************************************************)
Beendet == { "Succeeded", "Failed" }

C9_Zustand ==
    /\ mstate \in { "None", "Idle" } => starts = 0
    /\ mstate = "Invoking" => starts = 1
    /\ mstate = "Succeeded" => (starts = 1 /\ result.returncode = 0)
    /\ mstate = "Failed" => (starts = 1 /\ result.returncode # 0)

C9_Schritt ==
    /\ (mstate = "Idle" /\ mstate' # mstate) => (mstate' = "Invoking" /\ starts' = starts + 1)
    /\ (mstate = "Invoking" /\ mstate' # mstate) => (mstate' \in Beendet /\ starts' = starts)
    /\ mstate = "Invoking" => (pc' = pc /\ ui' = ui)
    /\ (mstate \in Beendet /\ lauf' = lauf) => (mstate' = mstate /\ starts' = starts)
    /\ starts' # starts => (mstate = "Idle" \/ lauf' # lauf)

\* C9: a merge attempt goes Idle -> Invoking -> Succeeded or Failed: the
\* process is started exactly once, the caller waits for it, exit status 0
\* ends in Succeeded and any other in Failed, and an ended attempt neither
\* changes state nor starts the process again.
C9_EinVersuch == [] C9_Zustand /\ [][C9_Schritt]_vars

\* a failed attempt has been reported to the user, after one process start
C9_Witness ==
    /\ mstate = "Failed"
    /\ starts = 1
    /\ pc = "done"
    /\ "error_merge" \in ui

====
